---- MODULE Spec2Model ----
(***************************************************************************)
(* A model of waterstanden (src/main.py): the time-series aggregator       *)
(* create_print_data, the alarm evaluator check_alarms, the fetcher        *)
(* check_waterstand and the orchestration loop of main.                    *)
(*                                                                         *)
(* Python dicts are modelled as insertion-ordered sequences of key/value   *)
(* entries, because check_alarms iterates a sub-map in insertion order.    *)
(* A Tijdstip string is modelled as <<day, hour, minute>>; its first 13    *)
(* characters ("YYYY-MM-DDTHH") are the <<day, hour>> prefix.              *)
(* Water levels are whole centimetres; the float thresholds                *)
(* norm + p * span are compared exactly, scaled by 100.                    *)
(*                                                                         *)
(* The specifications share the variables:                                 *)
(*   Spec          main from its start to the call of create_print_data:   *)
(*                 the loop over LOCATIONS, check_waterstand, post_json;   *)
(*   SpecCall      one call of check_waterstand with any type_data;        *)
(*   SpecPost      post_json on any response;                              *)
(*   SpecPipe      create_print_data on any water_data, then check_alarms  *)
(*                 on the table it returns (main, lines 334-337);          *)
(*   SpecPasses    SpecPipe with check_alarms evaluated again and again;   *)
(*   SpecClassify  the classification of check_alarms on any levels;       *)
(*   SpecOld       the fallback chains of src/main_old.py, main.           *)
(* plot_waterstanden (line 336) only reads the table and is left out.      *)
(* Raw responses are well-formed: each has Locatie.Naam, a station name    *)
(* other than "index", and each observation an ISO Tijdstip.               *)
(***************************************************************************)
EXTENDS Integers, Sequences, FiniteSets, TLC

VARIABLES
    pc,           \* position of the run
    exc,          \* the exception that ended the run, "" when none
    loc_data,     \* create_print_data: the raw response being processed
    meting,       \* create_print_data: the observation being processed
    resp_i,       \* create_print_data: raw responses taken from water_data
    obs_j,        \* create_print_data: observations taken from the MetingenLijst
    print_dict,   \* the aggregated table
    prev_cell,    \* history: what print_dict[locatie][timestamp] held before the last write
    now,          \* check_alarms: the cutoff (line 264), hours since day 0
    site_i,       \* check_alarms: index of the site in ALARMS
    item_k,       \* check_alarms: index of the (time, hight) item in site_data
    alarm_local,  \* check_alarms: worst state of the current site
    alarm_on,     \* check_alarms: the global alarm flag
    ALARMS,       \* the global alarm configuration and state
    loc_n,        \* main: index of the station in LOCATIONS
    type_n,       \* main: index of the process type in ("meting", "verwachting")
    type_data,    \* check_waterstand: the process type argument
    aanwezig,     \* check_waterstand: the presence flag as evaluated (line 97)
    r,            \* main: what check_waterstand returned
    waterstanden, \* main: the collected raw responses
    requests,     \* history: the requests issued so far, in order
    c_h,          \* classification alone: the observed value
    c_max,        \* classification alone: max_level
    c_norm,       \* classification alone: norm_level
    c_state,      \* classification alone: the computed state
    left_alarm,   \* history: the alarm states a check_alarms pass found at its start
    p_resp,       \* post_json alone: the response requests.post returned
    p_result,     \* post_json alone: what post_json returned or raised
    loc_k,        \* main_old: index of the target in loc_codes
    last_param,   \* main_old: the Parameter.Code of the sanity check, 0 for None
    param_candidates, \* main_old: the parameter codes found in the catalog
    proces,       \* main_old: the chain being run, "meting" or "verwachting"
    obs_meet,     \* main_old: the response kept for the measurements
    obs_fore,     \* main_old: the response kept for the forecasts
    cand_n,       \* main_old: candidates of param_candidates[:50] tried in this chain
    queries,      \* history: the fetch_waterhoogte queries of this station, in order
    split_in      \* history: the responses handed to split_by_day (lines 390-391)

pipe_vars == <<loc_data, meting, resp_i, obs_j, print_dict, prev_cell,
               now, site_i, item_k, alarm_local, alarm_on, ALARMS>>

fetch_vars == <<loc_n, type_n, type_data, aanwezig, r, waterstanden, requests>>

classify_vars == <<c_h, c_max, c_norm, c_state>>

post_vars == <<p_resp, p_result>>

old_vars == <<loc_k, last_param, param_candidates, proces, obs_meet, obs_fore,
              cand_n, queries, split_in>>

vars == <<pc, exc, pipe_vars, fetch_vars, classify_vars, left_alarm, post_vars, old_vars>>

----------------------------------------------------------------------------
(* Bounds of the model *)

\* raw responses in one water_data list
MaxResp == 2
\* observations in one MetingenLijst
MaxObs == 2
\* stations of LOCATIONS that main polls
NumLocations == 2
\* norm_level and max_level range over 20 * (-MaxLevel .. MaxLevel) when the
\* classification is checked alone
MaxLevel == 2

----------------------------------------------------------------------------
(* Values *)

HoursPerDay == 24

\* A table cell: a number, None, or the {} that index maps each timestamp to.
Num(v) == [t |-> "num", v |-> v]
NoneCell == [t |-> "none", v |-> 0]
EmptyDict == [t |-> "dict", v |-> 0]
\* history value only: the key was not in the sub-map
Absent == [t |-> "absent", v |-> 0]

\* Station names the upstream service reports (Locatie.Naam)
StationNames == {"Lobith, Bovenrijn, haven", "Amerongen, beneden"}

\* Tijdstip values of observations: <<day, hour, minute>>
Tijdstippen == {<<1, 23, 5>>, <<1, 23, 45>>, <<2, 0, 5>>}

\* Numeric readings in cm
Waarden == {100, 950}

\* The Meetwaarde field of an observation record: missing, an object without
\* Waarde_Numeriek, an object whose Waarde_Numeriek is null, or a number.
Meetwaarden ==
    {[kind |-> "missing", v |-> 0], [kind |-> "nonum", v |-> 0], [kind |-> "null", v |-> 0]}
    \cup {[kind |-> "num", v |-> w] : w \in Waarden}

Metingen == [Tijdstip : Tijdstippen, Meetwaarde : Meetwaarden]

\* The MetingenLijst field of a raw response: missing, null, [] or a non-empty list.
MetingenLijstKinds == {"missing", "null", "empty", "list"}

LocDatas == [Naam : StationNames, MetingenLijst : MetingenLijstKinds]

NoLocData == [Naam |-> "", MetingenLijst |-> "missing"]
NoMeting == [Tijdstip |-> <<0, 0, 0>>, Meetwaarde |-> [kind |-> "missing", v |-> 0]]

\* Wall-clock times at which check_alarms may run: <<day, hour, minute>>
NowTimes == {<<1, 23, 30>>, <<2, 0, 30>>, <<2, 1, 30>>, <<2, 2, 30>>}

----------------------------------------------------------------------------
(* Python dict, insertion-ordered: a sequence of [k, v] entries *)

DictKeys(d) == {d[n].k : n \in DOMAIN d}

DictHas(d, k) == k \in DictKeys(d)

DictGet(d, k) == d[CHOOSE n \in DOMAIN d : d[n].k = k].v

\* d[k] = v keeps the position of an existing key and appends a new one
DictSet(d, k, v) ==
    IF DictHas(d, k)
    THEN [n \in DOMAIN d |-> IF d[n].k = k THEN [k |-> k, v |-> v] ELSE d[n]]
    ELSE Append(d, [k |-> k, v |-> v])

\* d.setdefault(k, {})
SetDefaultReset(d, k) == DictSet(d, k, <<>>)

SetDefault(d, k) == IF DictHas(d, k) THEN d ELSE Append(d, [k |-> k, v |-> <<>>])

----------------------------------------------------------------------------
(* create_print_data *)

\* meting["Tijdstip"][:13]
Timestamp(ts) == SubSeq(ts, 1, 2)

\* meting["Meetwaarde"]["Waarde_Numeriek"]: raises KeyError when either key is missing
WaardeRaises(m) == m.Meetwaarde.kind \in {"missing", "nonum"}

WaardeNumeriek(m) ==
    IF m.Meetwaarde.kind = "num" THEN Num(m.Meetwaarde.v) ELSE NoneCell

\* print_dict['index'][timestamp] = {}
RegisterIndexSkip(pd, ts) == pd

RegisterIndex(pd, ts) ==
    DictSet(pd, "index", DictSet(DictGet(pd, "index"), ts, EmptyDict))

\* print_dict[locatie][timestamp] = value
StoreCellKeepFirst(pd, locatie, ts, cell) ==
    IF DictHas(DictGet(pd, locatie), ts)
    THEN pd
    ELSE DictSet(pd, locatie, DictSet(DictGet(pd, locatie), ts, cell))

StoreCell(pd, locatie, ts, cell) ==
    DictSet(pd, locatie, DictSet(DictGet(pd, locatie), ts, cell))

CellOf(pd, locatie, ts) ==
    IF DictHas(pd, locatie) /\ DictHas(DictGet(pd, locatie), ts)
    THEN DictGet(DictGet(pd, locatie), ts)
    ELSE Absent

alarm_vars == <<now, site_i, item_k, alarm_local, alarm_on, ALARMS>>

\* line 148: print_dict = {'index': {}}
CPD_Begin ==
    /\ pc = "create_print_data"
    /\ print_dict' = <<[k |-> "index", v |-> <<>>]>>
    /\ pc' = "for_loc_data"
    /\ UNCHANGED <<exc, loc_data, meting, resp_i, obs_j, prev_cell, alarm_vars, fetch_vars, classify_vars,
                   left_alarm, post_vars, old_vars>>

\* lines 149-154: the next raw response of water_data; setdefault; a falsy
\* MetingenLijst skips the inner loop
CPD_NextLocData ==
    /\ pc = "for_loc_data"
    /\ resp_i < MaxResp
    /\ \E ld \in LocDatas :
        /\ loc_data' = ld
        /\ print_dict' = SetDefault(print_dict, ld.Naam)
        /\ pc' = IF ld.MetingenLijst = "list" THEN "for_meting" ELSE "for_loc_data"
    /\ resp_i' = resp_i + 1
    /\ obs_j' = 0
    /\ UNCHANGED <<exc, meting, prev_cell, alarm_vars, fetch_vars, classify_vars,
                   left_alarm, post_vars, old_vars>>

\* lines 155-158: the next observation of the MetingenLijst
CPD_NextMeting ==
    /\ pc = "for_meting"
    /\ obs_j < MaxObs
    /\ \E m \in Metingen :
        LET timestamp == Timestamp(m.Tijdstip)
            indexed == RegisterIndex(print_dict, timestamp)
        IN  /\ meting' = m
            /\ prev_cell' = CellOf(print_dict, loc_data.Naam, timestamp)
            /\ IF WaardeRaises(m)
               THEN /\ print_dict' = indexed
                    /\ pc' = "crashed"
                    /\ exc' = "KeyError"
               ELSE /\ print_dict' = StoreCell(indexed, loc_data.Naam, timestamp,
                                               WaardeNumeriek(m))
                    /\ pc' = "for_meting"
                    /\ exc' = exc
    /\ obs_j' = obs_j + 1
    /\ UNCHANGED <<loc_data, resp_i, alarm_vars, fetch_vars, classify_vars,
                   left_alarm, post_vars, old_vars>>

\* line 155: the MetingenLijst (non-empty) is exhausted
CPD_EndMetingen ==
    /\ pc = "for_meting"
    /\ obs_j >= 1
    /\ pc' = "for_loc_data"
    /\ UNCHANGED <<exc, loc_data, meting, resp_i, obs_j, print_dict, prev_cell, alarm_vars, fetch_vars, classify_vars,
                   left_alarm, post_vars, old_vars>>

\* lines 149, 160: water_data is exhausted; return print_dict. The locals of
\* the call are gone with its frame.
CPD_Return ==
    /\ pc = "for_loc_data"
    /\ pc' = "check_alarms"
    /\ loc_data' = NoLocData
    /\ meting' = NoMeting
    /\ resp_i' = 0
    /\ obs_j' = 0
    /\ prev_cell' = Absent
    /\ UNCHANGED <<exc, print_dict, alarm_vars, fetch_vars, classify_vars,
                   left_alarm, post_vars, old_vars>>

----------------------------------------------------------------------------
(* check_alarms *)

\* ALARMS in iteration order (lines 30-33)
AlarmSites == <<"Lobith, Bovenrijn, haven", "Amerongen, beneden">>

\* lines 31-32, in cm
AlarmConfig ==
    [s \in {AlarmSites[n] : n \in DOMAIN AlarmSites} |->
        IF s = "Lobith, Bovenrijn, haven"
        THEN [max_level |-> 1100, norm_level |-> 800, alarm |-> "GREEN"]
        ELSE [max_level |-> 425, norm_level |-> 150, alarm |-> "GREEN"]]

States == {"GREEN", "YELLOW", "ORANGE", "RED", "BLACK"}

\* line 294: order
Order(state) ==
    CASE state = "GREEN" -> 0
      [] state = "YELLOW" -> 1
      [] state = "ORANGE" -> 2
      [] state = "RED" -> 3
      [] state = "BLACK" -> 4

\* datetime.strptime(time, "%Y-%m-%dT%H"): hours since day 0
ParseHour(time) == time[1] * HoursPerDay + time[2]

\* line 264: now.replace(minute=0, second=0, microsecond=0) - timedelta(hours=1)
Cutoff(t) == t[1] * HoursPerDay + t[2] - 1

\* line 275: now <= strptime(time)
QualifiesOnlyCutoffHour(cutoff, time) == cutoff = ParseHour(time)

QualifiesAlways(cutoff, time) == TRUE

Qualifies(cutoff, time) == cutoff <= ParseHour(time)

\* lines 278-291, thresholds norm_level + p * span compared exactly (scaled by 100)
ClassifyOpenBounds(h, max_level, norm_level) ==
    LET span == max_level - norm_level
    IN  IF h > max_level THEN "BLACK"
        ELSE IF 100 * h > 100 * norm_level + 95 * span THEN "RED"
        ELSE IF 100 * h > 100 * norm_level + 75 * span THEN "ORANGE"
        ELSE IF 100 * h > 100 * norm_level + 50 * span THEN "YELLOW"
        ELSE "GREEN"

ClassifyPercentOfMax(h, max_level, norm_level) ==
    IF h >= max_level THEN "BLACK"
    ELSE IF 100 * h >= 95 * max_level THEN "RED"
    ELSE IF 100 * h >= 75 * max_level THEN "ORANGE"
    ELSE IF 100 * h >= 50 * max_level THEN "YELLOW"
    ELSE "GREEN"

ClassifyBlackAtMax(h, max_level, norm_level) ==
    LET span == max_level - norm_level
    IN  IF h = max_level THEN "BLACK"
        ELSE IF 100 * h >= 100 * norm_level + 95 * span THEN "RED"
        ELSE IF 100 * h >= 100 * norm_level + 75 * span THEN "ORANGE"
        ELSE IF 100 * h >= 100 * norm_level + 50 * span THEN "YELLOW"
        ELSE "GREEN"

Classify(h, max_level, norm_level) ==
    LET span == max_level - norm_level
    IN  IF h >= max_level THEN "BLACK"
        ELSE IF 100 * h >= 100 * norm_level + 95 * span THEN "RED"
        ELSE IF 100 * h >= 100 * norm_level + 75 * span THEN "ORANGE"
        ELSE IF 100 * h >= 100 * norm_level + 50 * span THEN "YELLOW"
        ELSE "GREEN"

\* lines 295-296: keep the worst state
Worst(state, local) == IF Order(state) > Order(local) THEN state ELSE local

\* lines 306-314: alarm_on = True unless the state is GREEN
RaiseFlagLastOnly(flag, state) == state # "GREEN"

RaiseFlag(flag, state) == IF state = "GREEN" THEN flag ELSE TRUE

\* line 268/269: data.get(site) is a dict
SiteHasData(data, site) == DictHas(data, site)

\* line 266: each site starts from GREEN, whatever state ALARMS holds for it
StartStateStored(stored) == stored

StartState(stored) == "GREEN"

agg_vars == <<loc_data, meting, resp_i, obs_j, print_dict, prev_cell>>

\* lines 262-264
CA_Begin ==
    /\ pc = "check_alarms"
    /\ \E t \in NowTimes : now' = Cutoff(t)
    /\ alarm_on' = FALSE
    /\ site_i' = 1
    /\ pc' = "for_site"
    /\ left_alarm' = [s \in DOMAIN ALARMS |-> ALARMS[s].alarm]
    /\ UNCHANGED <<exc, item_k, alarm_local, ALARMS, agg_vars, fetch_vars, classify_vars,
                   post_vars, old_vars>>

\* lines 265-272: the next site of ALARMS; a site without data is set GREEN
CA_NextSite ==
    /\ pc = "for_site"
    /\ site_i <= Len(AlarmSites)
    /\ alarm_local' = StartState(ALARMS[AlarmSites[site_i]].alarm)
    /\ item_k' = 1
    /\ IF SiteHasData(print_dict, AlarmSites[site_i])
       THEN /\ pc' = "for_item"
            /\ UNCHANGED <<site_i, ALARMS>>
       ELSE /\ ALARMS' = [ALARMS EXCEPT ![AlarmSites[site_i]].alarm = alarm_local']
            /\ site_i' = site_i + 1
            /\ pc' = "for_site"
    /\ UNCHANGED <<exc, now, alarm_on, agg_vars, fetch_vars, classify_vars,
                   left_alarm, post_vars, old_vars>>

\* lines 273-314: the next (time, hight) item of site_data
CA_NextItem ==
    /\ pc = "for_item"
    /\ LET site == AlarmSites[site_i]
           site_data == DictGet(print_dict, site)
       IN  /\ item_k <= Len(site_data)
           /\ LET time == site_data[item_k].k
                  hight == site_data[item_k].v
              IN  IF ~Qualifies(now, time)
                  THEN UNCHANGED <<pc, exc, alarm_local, alarm_on>>
                  ELSE IF hight.t # "num"
                  THEN \* float(None)
                       /\ pc' = "crashed"
                       /\ exc' = "TypeError"
                       /\ UNCHANGED <<alarm_local, alarm_on>>
                  ELSE LET state == Classify(hight.v, ALARMS[site].max_level,
                                             ALARMS[site].norm_level)
                       IN  /\ alarm_local' = Worst(state, alarm_local)
                           /\ alarm_on' = RaiseFlag(alarm_on, state)
                           /\ UNCHANGED <<pc, exc>>
    /\ item_k' = item_k + 1
    /\ UNCHANGED <<now, site_i, ALARMS, agg_vars, fetch_vars, classify_vars,
                   left_alarm, post_vars, old_vars>>

\* line 315: site_data is exhausted
CA_EndSite ==
    /\ pc = "for_item"
    /\ item_k > Len(DictGet(print_dict, AlarmSites[site_i]))
    /\ ALARMS' = [ALARMS EXCEPT ![AlarmSites[site_i]].alarm = alarm_local]
    /\ site_i' = site_i + 1
    /\ pc' = "for_site"
    /\ UNCHANGED <<exc, now, item_k, alarm_local, alarm_on, agg_vars, fetch_vars, classify_vars,
                   left_alarm, post_vars, old_vars>>

\* line 316: return alarm_on
CA_Return ==
    /\ pc = "for_site"
    /\ site_i > Len(AlarmSites)
    /\ pc' = "done"
    /\ UNCHANGED <<exc, now, site_i, item_k, alarm_local, alarm_on, ALARMS, agg_vars, fetch_vars, classify_vars,
                   left_alarm, post_vars, old_vars>>

\* line 337 once more: a further evaluation pass, check_alarms on the same
\* table at another time, with ALARMS as the pass before left it
CA_Again ==
    /\ pc = "done"
    /\ pc' = "check_alarms"
    /\ UNCHANGED <<exc, now, site_i, item_k, alarm_local, alarm_on, ALARMS, agg_vars,
                   fetch_vars, classify_vars, left_alarm, post_vars, old_vars>>

----------------------------------------------------------------------------
(* post_json *)

\* HTTP status codes of a response
HttpStatuses == {200, 201, 204, 304, 404, 500}

\* A JSON object of the service, by the two fields the program reads
JsonObject(flag, wl) == [WaarnemingenAanwezig |-> flag, WaarnemingenLijst |-> wl]

\* the field WaarnemingenLijst: missing, null, or a list of raw responses
WLMissing == [kind |-> "missing", items |-> <<>>]
WLNull == [kind |-> "null", items |-> <<>>]
WLList(items) == [kind |-> "list", items |-> items]

\* {}
EmptyObject == JsonObject("<missing>", WLMissing)

\* line 58: the characters of the body a parse error carries
BodyPrefix == 1000

\* r.text, a response body: empty, whitespace only, not JSON, or a JSON
\* object; len is its number of characters
BodyEmpty == [kind |-> "empty", json |-> EmptyObject, len |-> 0]
BodyBlank == [kind |-> "blank", json |-> EmptyObject, len |-> 2]
BodyNonJsonOf(n) == [kind |-> "nonjson", json |-> EmptyObject, len |-> n]
BodyNonJson == BodyNonJsonOf(BodyPrefix \div 2)
BodyJson(j) == [kind |-> "json", json |-> j, len |-> 2]

\* r.text[:n], by its number of characters
TextPrefix(body, n) == IF body.len <= n THEN body.len ELSE n

\* what a call gives: the value returned, or the exception raised and the
\* number of body characters its message carries
Returned(j) == [raises |-> "", value |-> j, carried |-> 0]
Raised(e) == [raises |-> e, value |-> EmptyObject, carried |-> 0]
RaisedWith(e, n) == [raises |-> e, value |-> EmptyObject, carried |-> n]

\* r.raise_for_status(): 4xx and 5xx raise
RaiseForStatus(status) == status >= 400 /\ status < 600

\* lines 40-59, after requests.post returned the response resp
PostJson(resp) ==
    IF resp.status = 204 THEN Returned(EmptyObject)
    ELSE IF RaiseForStatus(resp.status) THEN Raised("HTTPError")
    ELSE IF resp.body.kind \in {"empty", "blank"} THEN Returned(EmptyObject)
    ELSE IF resp.body.kind = "nonjson"
         THEN RaisedWith("ValueError", TextPrefix(resp.body, BodyPrefix))
    ELSE Returned(resp.body.json)

----------------------------------------------------------------------------
(* check_waterstand and the loop of main *)

\* lines 20-29, in iteration order
LOCATIONS ==
    << [label |-> "Lobith, Bovenrijn, haven", code |-> "lobith.bovenrijn.haven"],
       [label |-> "Driel, boven", code |-> "driel.boven"],
       [label |-> "Driel, beneden", code |-> "driel.beneden"],
       [label |-> "Rhenen Grebbeberg", code |-> "rhenen.grebbeberg"],
       [label |-> "Amerongen, boven", code |-> "amerongen.boven"],
       [label |-> "Amerongen, beneden", code |-> "amerongen.beneden"],
       [label |-> "Culemborg", code |-> "culemborg"],
       [label |-> "Krimpen a/d IJssel", code |-> "krimpenaandeijssel.hollandscheijssel"] >>

\* the stations polled in the model: the first NumLocations of LOCATIONS
Polled == SubSeq(LOCATIONS, 1, NumLocations)

\* line 326
ProcessTypes == <<"meting", "verwachting">>

\* values of the field WaarnemingenAanwezig, as str() renders them
PresenceFlags == {"<missing>", "True", "False", "true", "false"}

\* str(check_resp.get("WaarnemingenAanwezig", "false")).lower() == "true"
Lower(str) == IF str = "True" THEN "true" ELSE IF str = "False" THEN "false" ELSE str

Aanwezig(check_resp) ==
    LET flag == check_resp.WaarnemingenAanwezig
    IN  Lower(IF flag = "<missing>" THEN "false" ELSE flag) = "true"

\* lines 99-106: a missing presence flag is printed, and the function goes on
\* to the value request all the same
AfterCheckFastFail(present) == IF present THEN "post_obs" ELSE "main_collect"

AfterCheck(present) == "post_obs"

\* lines 67-74: the window of a known process type
KnownTypeAny(t) == TRUE

KnownType(t) == t \in {"meting", "verwachting"}

Window(t) == IF t = "meting" THEN "[now - days, now]" ELSE "[now, now + days]"

\* return values of check_waterstand: {}, None, or the list wlists
RetDict == [kind |-> "dict", wlists |-> <<>>]
RetNone == [kind |-> "None", wlists |-> <<>>]
RetList(wl) == [kind |-> "list", wlists |-> wl]

\* the raw responses a value request for the station may carry
ObsLists(label) ==
    LET ld(k) == [Naam |-> label, MetingenLijst |-> k]
    IN  {<<>>, <<ld("missing")>>, <<ld("null")>>, <<ld("empty")>>, <<ld("list")>>,
         <<ld("list"), ld("empty")>>}

CheckBodies ==
    {BodyEmpty, BodyBlank, BodyNonJson}
    \cup {BodyJson(JsonObject(f, WLMissing)) : f \in PresenceFlags}

ObsBodies(label) ==
    {BodyEmpty, BodyBlank, BodyNonJson, BodyJson(JsonObject("<missing>", WLNull)),
     BodyJson(EmptyObject)}
    \cup {BodyJson(JsonObject("<missing>", WLList(l))) : l \in ObsLists(label)}

\* requests.post: a transport failure raises, otherwise a response comes back
Post(bodies) ==
    {Raised("ConnectionError")}
    \cup {PostJson([status |-> st, body |-> b]) : st \in HttpStatuses, b \in bodies}

\* lines 123-143: what check_waterstand returns for obs_resp
ResultOf(obs_resp) ==
    LET wlists == obs_resp.WaarnemingenLijst.items
    IN  IF wlists = <<>> THEN RetNone
        ELSE IF wlists[1].MetingenLijst # "list" THEN RetNone
        ELSE RetList(wlists)

\* lines 328-329
Collect(ws, ret) == IF ret.kind = "list" THEN ws \o ret.wlists ELSE ws

Request(url) ==
    [url |-> url, loc |-> loc_n, type |-> type_data,
     code |-> Polled[loc_n].code, window |-> Window(type_data)]

\* lines 321, 326-327: the next call of check_waterstand
Main_NextCall ==
    /\ pc = "main_loop"
    /\ loc_n <= Len(Polled)
    /\ type_data' = ProcessTypes[type_n]
    /\ pc' = "check_waterstand"
    /\ UNCHANGED <<exc, loc_n, type_n, aanwezig, r, waterstanden, requests,
                   pipe_vars, classify_vars,
                   left_alarm, post_vars, old_vars>>

\* lines 66-74: an unknown process type returns {}
CW_Window ==
    /\ pc = "check_waterstand"
    /\ IF KnownType(type_data)
       THEN pc' = "post_check" /\ r' = r
       ELSE pc' = "main_collect" /\ r' = RetDict
    /\ UNCHANGED <<exc, loc_n, type_n, type_data, aanwezig, waterstanden, requests,
                   pipe_vars, classify_vars,
                   left_alarm, post_vars, old_vars>>

\* lines 95-104: the presence check
CW_Check ==
    /\ pc = "post_check"
    /\ requests' = Append(requests, Request("URL_CHECK"))
    /\ \E res \in Post(CheckBodies) :
        IF res.raises # ""
        THEN /\ pc' = "crashed"
             /\ exc' = res.raises
             /\ aanwezig' = aanwezig
             /\ r' = r
        ELSE /\ aanwezig' = Aanwezig(res.value)
             /\ exc' = exc
             /\ pc' = AfterCheck(Aanwezig(res.value))
             /\ r' = r
    /\ UNCHANGED <<loc_n, type_n, type_data, waterstanden, pipe_vars, classify_vars,
                   left_alarm, post_vars, old_vars>>

\* lines 107-143: the value request
CW_Obs ==
    /\ pc = "post_obs"
    /\ requests' = Append(requests, Request("URL_OBS"))
    /\ \E res \in Post(ObsBodies(Polled[loc_n].label)) :
        IF res.raises # ""
        THEN /\ pc' = "crashed"
             /\ exc' = res.raises
             /\ r' = r
        ELSE /\ pc' = "main_collect"
             /\ exc' = exc
             /\ r' = ResultOf(res.value)
    /\ UNCHANGED <<loc_n, type_n, type_data, aanwezig, waterstanden,
                   pipe_vars, classify_vars,
                   left_alarm, post_vars, old_vars>>

\* lines 328-329, and the step of the two loops
Main_Collect ==
    /\ pc = "main_collect"
    /\ waterstanden' = Collect(waterstanden, r)
    /\ IF type_n < Len(ProcessTypes)
       THEN type_n' = type_n + 1 /\ loc_n' = loc_n
       ELSE type_n' = 1 /\ loc_n' = loc_n + 1
    /\ pc' = "main_loop"
    /\ UNCHANGED <<exc, type_data, aanwezig, r, requests, pipe_vars, classify_vars,
                   left_alarm, post_vars, old_vars>>

\* lines 331-334: every station was polled; the snapshot is written and
\* create_print_data(waterstanden) is called
Main_Aggregate ==
    /\ pc = "main_loop"
    /\ loc_n > Len(Polled)
    /\ pc' = "create_print_data"
    /\ UNCHANGED <<exc, fetch_vars, pipe_vars, classify_vars,
                   left_alarm, post_vars, old_vars>>

----------------------------------------------------------------------------
(* post_json alone, on any response requests.post can return. The three    *)
(* copies (main.py 40-59, main_old.py 27-46, check_amerongen_beneden.py    *)
(* 19-37) differ in their timeout and in the wording of the message only.  *)

\* body lengths around the 1000 characters a parse error carries
BodyLengths == {1, BodyPrefix, BodyPrefix + 1, 2 * BodyPrefix}

PostBodies ==
    {BodyEmpty, BodyBlank}
    \cup {BodyNonJsonOf(n) : n \in BodyLengths}
    \cup {BodyJson(JsonObject(f, wl)) : f \in PresenceFlags, wl \in {WLMissing, WLNull}}

NoResponse == [status |-> 0, body |-> BodyEmpty]
NoResult == Raised("<none>")

\* lines 40-59
PJ_Call ==
    /\ pc = "post_json"
    /\ p_result' = PostJson(p_resp)
    /\ pc' = "posted"
    /\ UNCHANGED <<exc, p_resp, pipe_vars, fetch_vars, classify_vars, left_alarm, old_vars>>

PostIdle ==
    /\ p_resp = NoResponse
    /\ p_result = NoResult

----------------------------------------------------------------------------
(* main_old.main, lines 303-399: the loop over loc_codes. A parameter code  *)
(* is a positive number, 0 stands for None. A fetch is modelled by its      *)
(* outcome: post_json raises HTTPError or ValueError, which main catches;   *)
(* requests.post raises something else, which ends the run; or a response  *)
(* comes back, with or without an observation (has_any_waarnemingen).      *)
(* split_by_day makes the same of every response without observations, so  *)
(* all of them, {} included, are one value.                                 *)

\* lines 17-21
TARGETS == <<"lobith", "amerongen beneden", "kinderdijk">>

\* targets of TARGETS that the run looks up
NumTargets == 2

Wanted == SubSeq(TARGETS, 1, NumTargets)

\* lines 350, 382: param_candidates[:50]
CandidateCap == 50

Capped(l) == IF Len(l) <= CandidateCap THEN l ELSE SubSeq(l, 1, CandidateCap)

\* find_waterhoogte_parameter_codes: a de-duplicated list of codes
Catalogs == {[i \in 1 .. n |-> i] : n \in {0, 2, CandidateCap + 1}}

\* extract_parameter_code_from_last: a code of the catalog list or another one
SanityCodes == {1, 2, 999}

Chains == {"meting", "verwachting"}

\* fetch_waterhoogte, lines 183-203: the payload, by station, ProcesType
\* ("" when left out) and Parameter.Code (0: Grootheid.Code WATHTE)
Query(proces_type, parameter_code) ==
    [loc |-> loc_k, proces_type |-> proces_type, parameter_code |-> parameter_code]

NoQuery == [loc |-> 0, proces_type |-> "", parameter_code |-> 0]

\* a response, by the query that returned it and has_any_waarnemingen
Observations(q) == [query |-> q, has |-> TRUE]
NoObservations == [query |-> NoQuery, has |-> FALSE]

FetchOutcomes == {"raises", "fails", "empty", "observations"}

\* the response kept for the chain being run
Obs == IF proces = "meting" THEN obs_meet ELSE obs_fore

\* lines 331/352 and 366/384: the proces_type of a Parameter.Code query
ParamType(chain) == IF chain = "meting" THEN "" ELSE "verwachting"

\* the chain's record of a query and of whether it returned an observation
Asked(q, outcome) == [q |-> q, has |-> outcome = "observations"]

Record(hist, chain, q, outcome) ==
    [hist EXCEPT ![chain] = Append(@, Asked(q, outcome))]

\* obs = fetch_waterhoogte(...) inside try/except: the assignment happens
\* when a response comes back
Fetched(old, q, outcome) ==
    IF outcome = "observations" THEN Observations(q)
    ELSE IF outcome = "empty" THEN NoObservations
    ELSE old

Keep(resp) ==
    IF proces = "meting"
    THEN obs_meet' = resp /\ obs_fore' = obs_fore
    ELSE obs_fore' = resp /\ obs_meet' = obs_meet

NoQueries == [c \in Chains |-> <<>>]
NoSplit == [c \in Chains |-> NoObservations]

\* lines 303-305: the next target; one without a location code is skipped
Old_NextStation ==
    /\ pc = "old_loop"
    /\ loc_k <= Len(Wanted)
    /\ \E code \in BOOLEAN :
        IF code
        THEN /\ pc' = "old_sanity"
             /\ loc_k' = loc_k
        ELSE /\ pc' = "old_loop"
             /\ loc_k' = loc_k + 1
    /\ last_param' = 0
    /\ proces' = ""
    /\ obs_meet' = NoObservations
    /\ obs_fore' = NoObservations
    /\ cand_n' = 0
    /\ queries' = NoQueries
    /\ split_in' = NoSplit
    /\ UNCHANGED <<exc, param_candidates, pipe_vars, fetch_vars, classify_vars,
                   left_alarm, post_vars>>

\* lines 308-325: the sanity check and its Parameter.Code
Old_Sanity ==
    /\ pc = "old_sanity"
    /\ \E outcome \in FetchOutcomes :
        IF outcome = "fails"
        THEN /\ pc' = "crashed"
             /\ exc' = "ConnectionError"
             /\ UNCHANGED <<last_param, proces>>
        ELSE /\ pc' = "old_param"
             /\ exc' = exc
             /\ proces' = "meting"
             /\ IF outcome = "raises"
                THEN last_param' = 0
                ELSE \E code \in SanityCodes \cup {0} : last_param' = code
    /\ UNCHANGED <<loc_k, param_candidates, obs_meet, obs_fore, cand_n, queries, split_in,
                   pipe_vars, fetch_vars, classify_vars, left_alarm, post_vars>>

\* lines 328-336 and 363-371: the query by the Parameter.Code of the sanity check
Old_TryParam ==
    /\ pc = "old_param"
    /\ IF last_param = 0
       THEN /\ pc' = "old_quantity"
            /\ UNCHANGED <<exc, obs_meet, obs_fore, queries>>
       ELSE \E outcome \in FetchOutcomes :
               LET q == Query(ParamType(proces), last_param)
               IN  /\ queries' = Record(queries, proces, q, outcome)
                   /\ Keep(Fetched(Obs, q, outcome))
                   /\ pc' = IF outcome = "fails" THEN "crashed" ELSE "old_quantity"
                   /\ exc' = IF outcome = "fails" THEN "ConnectionError" ELSE exc
    /\ UNCHANGED <<loc_k, last_param, param_candidates, proces, cand_n, split_in,
                   pipe_vars, fetch_vars, classify_vars, left_alarm, post_vars>>

\* lines 339-346 and 374-378: the Grootheid queries; for the measurements a
\* second one without ProcesType when the first brought no observation
Old_TryQuantity ==
    /\ pc = "old_quantity"
    /\ IF Obs.has
       THEN /\ pc' = "old_candidates"
            /\ UNCHANGED <<exc, obs_meet, obs_fore, queries>>
       ELSE \E first \in FetchOutcomes :
               LET q1 == Query(proces, 0)
                   h1 == Record(queries, proces, q1, first)
                   o1 == Fetched(Obs, q1, first)
               IN  IF proces = "meting" /\ first = "empty"
                   THEN \E second \in FetchOutcomes :
                           LET q2 == Query("", 0)
                           IN  /\ queries' = Record(h1, proces, q2, second)
                               /\ Keep(Fetched(o1, q2, second))
                               /\ pc' = IF second = "fails" THEN "crashed"
                                        ELSE "old_candidates"
                               /\ exc' = IF second = "fails" THEN "ConnectionError"
                                         ELSE exc
                   ELSE /\ queries' = h1
                        /\ Keep(o1)
                        /\ pc' = IF first = "fails" THEN "crashed" ELSE "old_candidates"
                        /\ exc' = IF first = "fails" THEN "ConnectionError" ELSE exc
    /\ cand_n' = 0
    /\ UNCHANGED <<loc_k, last_param, param_candidates, proces, split_in,
                   pipe_vars, fetch_vars, classify_vars, left_alarm, post_vars>>

\* lines 349-357 and 381-389: the next candidate of param_candidates[:50]
Old_TryCandidate ==
    /\ pc = "old_candidates"
    /\ ~Obs.has
    /\ cand_n < Len(Capped(param_candidates))
    /\ \E outcome \in FetchOutcomes :
        LET q == Query(ParamType(proces), Capped(param_candidates)[cand_n + 1])
        IN  /\ queries' = Record(queries, proces, q, outcome)
            /\ Keep(Fetched(Obs, q, outcome))
            /\ pc' = IF outcome = "fails" THEN "crashed" ELSE "old_candidates"
            /\ exc' = IF outcome = "fails" THEN "ConnectionError" ELSE exc
    /\ cand_n' = cand_n + 1
    /\ UNCHANGED <<loc_k, last_param, param_candidates, proces, split_in,
                   pipe_vars, fetch_vars, classify_vars, left_alarm, post_vars>>

\* the chain is over: an observation came back (break), or the list is used up
ChainOver == Obs.has \/ cand_n >= Len(Capped(param_candidates))

\* line 360: the measurements are settled, obs_fore = {}
Old_Forecasts ==
    /\ pc = "old_candidates"
    /\ proces = "meting"
    /\ ChainOver
    /\ proces' = "verwachting"
    /\ obs_fore' = NoObservations
    /\ cand_n' = 0
    /\ pc' = "old_param"
    /\ UNCHANGED <<exc, loc_k, last_param, param_candidates, obs_meet, queries, split_in,
                   pipe_vars, fetch_vars, classify_vars, left_alarm, post_vars>>

\* lines 390-397: both responses go to split_by_day
Old_Split ==
    /\ pc = "old_candidates"
    /\ proces = "verwachting"
    /\ ChainOver
    /\ split_in' = [c \in Chains |-> IF c = "meting" THEN obs_meet ELSE obs_fore]
    /\ loc_k' = loc_k + 1
    /\ pc' = "old_loop"
    /\ UNCHANGED <<exc, last_param, param_candidates, proces, obs_meet, obs_fore,
                   cand_n, queries, pipe_vars, fetch_vars, classify_vars,
                   left_alarm, post_vars>>

\* line 399: every target was handled
Old_Return ==
    /\ pc = "old_loop"
    /\ loc_k > Len(Wanted)
    /\ pc' = "old_done"
    /\ UNCHANGED <<exc, old_vars, pipe_vars, fetch_vars, classify_vars,
                   left_alarm, post_vars>>

OldIdle ==
    /\ loc_k = 1
    /\ last_param = 0
    /\ param_candidates = <<>>
    /\ proces = ""
    /\ obs_meet = NoObservations
    /\ obs_fore = NoObservations
    /\ cand_n = 0
    /\ queries = NoQueries
    /\ split_in = NoSplit

PipeIdle ==
    /\ loc_data = NoLocData
    /\ meting = NoMeting
    /\ resp_i = 0
    /\ obs_j = 0
    /\ print_dict = <<>>
    /\ prev_cell = Absent
    /\ now = 0
    /\ site_i = 0
    /\ item_k = 0
    /\ alarm_local = "GREEN"
    /\ alarm_on = FALSE
    /\ ALARMS = AlarmConfig
    /\ left_alarm = [s \in DOMAIN AlarmConfig |-> AlarmConfig[s].alarm]

FetchIdle ==
    /\ loc_n = 1
    /\ type_n = 1
    /\ type_data = ""
    /\ aanwezig = FALSE
    /\ r = RetNone
    /\ waterstanden = <<>>
    /\ requests = <<>>

ClassifyIdle ==
    /\ c_h = 0
    /\ c_max = 0
    /\ c_norm = 0
    /\ c_state = ""

\* main, line 320
Init ==
    /\ pc = "main_loop"
    /\ exc = ""
    /\ FetchIdle
    /\ PipeIdle
    /\ ClassifyIdle
    /\ PostIdle
    /\ OldIdle

Next ==
    \/ Main_NextCall
    \/ CW_Window
    \/ CW_Check
    \/ CW_Obs
    \/ Main_Collect
    \/ Main_Aggregate

\* main from its start to the call of create_print_data
Spec == Init /\ [][Next]_vars

----------------------------------------------------------------------------
(* The pipeline of main, lines 334-337: create_print_data(waterstanden),    *)
(* then check_alarms(printable_dict). water_data is any list of at most    *)
(* MaxResp raw responses of at most MaxObs observations each, read in      *)
(* order as the loops of create_print_data reach its elements.             *)

InitPipe ==
    /\ pc = "create_print_data"
    /\ exc = ""
    /\ FetchIdle
    /\ PipeIdle
    /\ ClassifyIdle
    /\ PostIdle
    /\ OldIdle

NextPipe ==
    \/ CPD_Begin
    \/ CPD_NextLocData
    \/ CPD_NextMeting
    \/ CPD_EndMetingen
    \/ CPD_Return
    \/ CA_Begin
    \/ CA_NextSite
    \/ CA_NextItem
    \/ CA_EndSite
    \/ CA_Return

SpecPipe == InitPipe /\ [][NextPipe]_vars

\* the pipeline, with check_alarms evaluated any number of times
NextPasses ==
    \/ NextPipe
    \/ CA_Again

SpecPasses == InitPipe /\ [][NextPasses]_vars

----------------------------------------------------------------------------
(* The classification of lines 276-291 alone, for any norm_level, max_level *)
(* and observed value                                                      *)

Levels == {20 * n : n \in (0 - MaxLevel) .. MaxLevel}

Heights == (0 - 20 * MaxLevel - 5) .. (20 * MaxLevel + 5)

InitClassify ==
    /\ pc = "classify"
    /\ exc = ""
    /\ c_h \in Heights
    /\ c_max \in Levels
    /\ c_norm \in Levels
    /\ c_state = ""
    /\ FetchIdle
    /\ PipeIdle
    /\ PostIdle
    /\ OldIdle

ClassifyStep ==
    /\ pc = "classify"
    /\ c_state' = Classify(c_h, c_max, c_norm)
    /\ pc' = "classified"
    /\ UNCHANGED <<exc, c_h, c_max, c_norm, fetch_vars, pipe_vars,
                   left_alarm, post_vars, old_vars>>

NextClassify == ClassifyStep

SpecClassify == InitClassify /\ [][NextClassify]_vars

----------------------------------------------------------------------------
(* One call of check_waterstand with any type_data, and what lines 327-329  *)
(* of main do with its return value. The list main collected before the    *)
(* call is empty or holds a raw response.                                   *)

TypeArguments == {"meting", "verwachting", "", "Meting", "metingen", "astronomisch"}

Collected == {<<>>, <<[Naam |-> Polled[1].label, MetingenLijst |-> "list"]>>}

InitCall ==
    /\ pc = "check_waterstand"
    /\ exc = ""
    /\ loc_n \in 1 .. Len(Polled)
    /\ type_n = 1
    /\ type_data \in TypeArguments
    /\ aanwezig = FALSE
    /\ r = RetNone
    /\ waterstanden \in Collected
    /\ requests = <<>>
    /\ PipeIdle
    /\ ClassifyIdle
    /\ PostIdle
    /\ OldIdle

NextCall ==
    \/ CW_Window
    \/ CW_Check
    \/ CW_Obs
    \/ Main_Collect

SpecCall == InitCall /\ [][NextCall]_vars

----------------------------------------------------------------------------
(* post_json alone, for any status and body of the response                 *)

InitPost ==
    /\ pc = "post_json"
    /\ exc = ""
    /\ p_resp \in [status : HttpStatuses, body : PostBodies]
    /\ p_result = NoResult
    /\ FetchIdle
    /\ PipeIdle
    /\ ClassifyIdle
    /\ OldIdle

NextPost == PJ_Call

SpecPost == InitPost /\ [][NextPost]_vars

----------------------------------------------------------------------------
(* main_old.main from line 303 on, for any catalog list of parameter codes  *)

InitOld ==
    /\ pc = "old_loop"
    /\ exc = ""
    /\ loc_k = 1
    /\ last_param = 0
    /\ param_candidates \in Catalogs
    /\ proces = ""
    /\ obs_meet = NoObservations
    /\ obs_fore = NoObservations
    /\ cand_n = 0
    /\ queries = NoQueries
    /\ split_in = NoSplit
    /\ FetchIdle
    /\ PipeIdle
    /\ ClassifyIdle
    /\ PostIdle

NextOld ==
    \/ Old_NextStation
    \/ Old_Sanity
    \/ Old_TryParam
    \/ Old_TryQuantity
    \/ Old_TryCandidate
    \/ Old_Forecasts
    \/ Old_Split
    \/ Old_Return

SpecOld == InitOld /\ [][NextOld]_vars

----------------------------------------------------------------------------
(* Properties of create_print_data (SpecPipe) *)

Lobith == "Lobith, Bovenrijn, haven"
Amerongen == "Amerongen, beneden"

\* the hour a Tijdstip falls in, and the hours of the model
HourOf(ts) == <<ts[1], ts[2]>>
HourKeys == {HourOf(ts) : ts \in Tijdstippen}

\* the value an observation record carries: its number, or none
ValueOf(m) == IF m.Meetwaarde.kind = "num" THEN Num(m.Meetwaarde.v) ELSE NoneCell

IndexKeys ==
    IF DictHas(print_dict, "index") THEN DictKeys(DictGet(print_dict, "index")) ELSE {}

\* C1: at every point of create_print_data, and in the table it returns, every
\* timestamp key of every station's sub-map is a key of the shared index.
C1_IndexSuperset ==
    \A n \in DOMAIN print_dict :
        print_dict[n].k # "index" => DictKeys(print_dict[n].v) \subseteq IndexKeys

\* C1 witness: in the middle of the inner loop two stations hold different
\* hours, and the index holds both.
C1_Witness ==
    /\ pc = "for_meting"
    /\ DictHas(print_dict, Lobith)
    /\ DictHas(print_dict, Amerongen)
    /\ DictKeys(DictGet(print_dict, Lobith)) = {<<1, 23>>}
    /\ DictKeys(DictGet(print_dict, Amerongen)) = {<<2, 0>>}
    /\ IndexKeys = {<<1, 23>>, <<2, 0>>}

\* C2: last write wins per (station, hour). A step changes the cell of station
\* s and hour h only by processing an observation of a raw response named s
\* whose Tijdstip falls in hour h, and that step leaves the observation's value
\* in the cell whatever the cell held before, be it from the same raw response
\* or from an earlier one.
C2_LastWriteWins ==
    [][\A s \in StationNames, h \in HourKeys :
         LET processed ==
                 /\ pc = "for_meting"
                 /\ pc' = "for_meting"
                 /\ obs_j' = obs_j + 1
                 /\ loc_data.Naam = s
                 /\ HourOf(meting'.Tijdstip) = h
         IN  CellOf(print_dict', s, h) =
                 IF processed THEN ValueOf(meting') ELSE CellOf(print_dict, s, h)]_vars

\* C2 witness: the first observation of the second raw response (23:45, 950)
\* has overwritten the 100 that the first raw response left in that hour.
C2_Witness ==
    /\ pc = "for_meting"
    /\ resp_i = 2
    /\ obs_j = 1
    /\ prev_cell = Num(100)
    /\ meting = [Tijdstip |-> <<1, 23, 45>>, Meetwaarde |-> [kind |-> "num", v |-> 950]]
    /\ CellOf(print_dict, loc_data.Naam, <<1, 23>>) = Num(950)

\* C8: an observation without a numeric value is absent data: create_print_data
\* does not raise on it and stores no number for it, and check_alarms does not
\* raise on the table that results.
C8_MissingValueNeverRaises ==
    /\ ~(pc = "crashed" /\ exc = "KeyError")
    /\ ~(pc = "crashed" /\ exc = "TypeError")
    /\ (pc = "for_meting" /\ obs_j >= 1 /\ meting.Meetwaarde.kind # "num")
          => CellOf(print_dict, loc_data.Naam, HourOf(meting.Tijdstip)).t # "num"

----------------------------------------------------------------------------
(* Properties of check_alarms (SpecPipe) *)

\* the sub-map of a site, empty when the site is not in the table
SiteData(s) == IF DictHas(print_dict, s) THEN DictGet(print_dict, s) ELSE <<>>

\* hours since day 0 of an hour key
HourOrdinal(k) == k[1] * 24 + k[2]

\* the items of a site's sub-map at or after the cutoff
QualifyingItems(s) ==
    {n \in DOMAIN SiteData(s) : HourOrdinal(SiteData(s)[n].k) >= now}

\* the state an item of a site classifies as
StateOf(s, n) ==
    Classify(SiteData(s)[n].v.v, ALARMS[s].max_level, ALARMS[s].norm_level)

MaxState(S) ==
    IF S = {} THEN "GREEN" ELSE CHOOSE x \in S : \A y \in S : Order(y) <= Order(x)

InPass == pc \in {"for_site", "for_item", "done"}

\* the case of C4: the pass is over, the station has max_level 1100 and
\* norm_level 800, and its one qualifying observation is 950
C4_SingleObservation950 ==
    /\ pc = "done"
    /\ ALARMS[Lobith].max_level = 1100
    /\ ALARMS[Lobith].norm_level = 800
    /\ Cardinality(QualifyingItems(Lobith)) = 1
    /\ \A n \in QualifyingItems(Lobith) : SiteData(Lobith)[n].v = Num(950)

\* C4 as stated: with max_level 1100 and norm_level 800, a single qualifying
\* observation of 950 sets the station's alarm state to ORANGE.
C4_Orange950 == C4_SingleObservation950 => ALARMS[Lobith].alarm = "ORANGE"

\* C4 amended: with max_level 1100 and norm_level 800, a single qualifying
\* observation of 950 sets the station's alarm state to YELLOW (950 is the 50%
\* threshold; the 75% threshold is 1025).
C4_Yellow950 == C4_SingleObservation950 => ALARMS[Lobith].alarm = "YELLOW"

\* C4 witness: a finished pass over such a table.
C4_Witness == C4_SingleObservation950 /\ ALARMS[Lobith].alarm = "YELLOW"

\* the items check_alarms has gone through so far in this pass
Processed(si, n) == si < site_i \/ (si = site_i /\ pc = "for_item" /\ n < item_k)

\* C5: at every point of a pass the global flag is true exactly when some
\* qualifying observation processed so far classified above GREEN; so it rises
\* at the first such observation, no later GREEN observation resets it, and the
\* returned flag is false exactly when every qualifying observation is GREEN.
C5_StickyFlag ==
    InPass =>
        (alarm_on <=>
            \E si \in DOMAIN AlarmSites :
                \E n \in QualifyingItems(AlarmSites[si]) :
                    Processed(si, n) /\ StateOf(AlarmSites[si], n) # "GREEN")

\* C5 witness: the pass returned true although the last qualifying observation
\* of the first site, and all of the second site, classify as GREEN.
C5_Witness ==
    /\ pc = "done"
    /\ alarm_on
    /\ Len(SiteData(Lobith)) = 2
    /\ QualifyingItems(Lobith) = {1, 2}
    /\ StateOf(Lobith, 1) = "YELLOW"
    /\ StateOf(Lobith, 2) = "GREEN"
    /\ QualifyingItems(Amerongen) # {}
    /\ \A n \in QualifyingItems(Amerongen) : StateOf(Amerongen, n) = "GREEN"

\* the current wall-clock hour: the cutoff is one hour before it
CurrentHour == now + 1

\* C6 as stated: at most one timestamp per station qualifies in a pass, and
\* timestamps later than the current hour contribute neither to a station's
\* state nor to the global flag.
C6_OnlyMostRecentHour ==
    InPass =>
        /\ \A si \in DOMAIN AlarmSites : Cardinality(QualifyingItems(AlarmSites[si])) <= 1
        /\ pc = "done" =>
            /\ \A si \in DOMAIN AlarmSites :
                 LET s == AlarmSites[si]
                 IN  ALARMS[s].alarm =
                         MaxState({StateOf(s, n) : n \in
                             {m \in QualifyingItems(s) :
                                 HourOrdinal(SiteData(s)[m].k) <= CurrentHour}})
            /\ alarm_on <=>
                 \E si \in DOMAIN AlarmSites :
                     \E n \in QualifyingItems(AlarmSites[si]) :
                         /\ HourOrdinal(SiteData(AlarmSites[si])[n].k) <= CurrentHour
                         /\ StateOf(AlarmSites[si], n) # "GREEN"

\* C6 amended: every timestamp at or after the cutoff qualifies (the hour
\* before the current one, the current hour and every later, forecast, hour),
\* so several timestamps of a station may qualify in one pass; a finished pass
\* leaves each station the worst state over all of them and the flag true
\* exactly when one of them is above GREEN. Timestamps before the cutoff never
\* contribute.
C6_AllFromCutoff ==
    pc = "done" =>
        /\ \A si \in DOMAIN AlarmSites :
             LET s == AlarmSites[si]
             IN  ALARMS[s].alarm = MaxState({StateOf(s, n) : n \in QualifyingItems(s)})
        /\ alarm_on <=>
             \E si \in DOMAIN AlarmSites :
                 \E n \in QualifyingItems(AlarmSites[si]) :
                     StateOf(AlarmSites[si], n) # "GREEN"

\* C6 witness: at 23:30 the 23:00 reading (GREEN) and the 00:00 forecast of the
\* next day (YELLOW) both qualify, and the forecast decides state and flag.
C6_Witness ==
    /\ pc = "done"
    /\ now = 46
    /\ SiteData(Lobith) = << [k |-> <<1, 23>>, v |-> Num(100)],
                             [k |-> <<2, 0>>, v |-> Num(950)] >>
    /\ ~DictHas(print_dict, Amerongen)
    /\ ALARMS[Lobith].alarm = "YELLOW"
    /\ alarm_on

\* C7: while check_alarms is at a configured site that is absent from the
\* table or has no timestamp at or after the cutoff, no step raises, no step
\* changes the global flag, and the step that leaves the site sets its state
\* to GREEN and goes to the next site.
C7_NoDataIsGreen ==
    [][(/\ pc \in {"for_site", "for_item"}
        /\ site_i <= Len(AlarmSites)
        /\ QualifyingItems(AlarmSites[site_i]) = {})
       => /\ pc' # "crashed"
          /\ alarm_on' = alarm_on
          /\ site_i' # site_i =>
                /\ site_i' = site_i + 1
                /\ pc' = "for_site"
                /\ ALARMS'[AlarmSites[site_i]].alarm = "GREEN"]_vars

\* C7 witness: the first site is absent from the table, its state is GREEN,
\* and the pass went on to find the second site BLACK.
C7_Witness ==
    /\ pc = "done"
    /\ ~DictHas(print_dict, Lobith)
    /\ ALARMS[Lobith].alarm = "GREEN"
    /\ QualifyingItems(Amerongen) # {}
    /\ ALARMS[Amerongen].alarm = "BLACK"
    /\ alarm_on

----------------------------------------------------------------------------
(* Properties of the classification (SpecClassify) *)

\* the boundary values classify as YELLOW, ORANGE, RED and BLACK, and every
\* value below the 50% threshold as GREEN
C3_Boundaries ==
    /\ 100 * c_h = 100 * c_norm + 50 * (c_max - c_norm) => c_state = "YELLOW"
    /\ 100 * c_h = 100 * c_norm + 75 * (c_max - c_norm) => c_state = "ORANGE"
    /\ 100 * c_h = 100 * c_norm + 95 * (c_max - c_norm) => c_state = "RED"
    /\ c_h = c_max => c_state = "BLACK"
    /\ 100 * c_h < 100 * c_norm + 50 * (c_max - c_norm) => c_state = "GREEN"

\* C3 as stated: for every norm_level L and max_level H the boundary values
\* L + 0.50 * (H - L), L + 0.75 * (H - L), L + 0.95 * (H - L) and H classify
\* as YELLOW, ORANGE, RED and BLACK, and every value below L + 0.50 * (H - L)
\* as GREEN.
C3_BoundariesAnyLevels == pc = "classified" => C3_Boundaries

\* C3 amended: the same, for every norm_level L and max_level H with H > L.
C3_BoundariesOrderedLevels == (pc = "classified" /\ c_max > c_norm) => C3_Boundaries

\* C3 witness: a value on the 75% boundary of an ordered pair of levels was
\* classified ORANGE.
C3_Witness ==
    /\ pc = "classified"
    /\ c_max > c_norm
    /\ 100 * c_h = 100 * c_norm + 75 * (c_max - c_norm)
    /\ c_state = "ORANGE"

----------------------------------------------------------------------------
(* Properties of check_waterstand and main (Spec) *)

\* the URLs of the requests issued for station l and process type t, in order
UrlsOf(l, t) ==
    LET mine(q) == q.loc = l /\ q.type = t
        qs == SelectSeq(requests, mine)
    IN  [n \in DOMAIN qs |-> qs[n].url]

TypeIndex(t) == CHOOSE n \in DOMAIN ProcessTypes : ProcessTypes[n] = t

\* the call for station l and process type t has returned to main
Completed(l, t) ==
    \/ l < loc_n
    \/ l = loc_n /\ TypeIndex(t) < type_n
    \/ l = loc_n /\ TypeIndex(t) = type_n /\ pc = "main_collect"

\* C9: a failed request never ends the run: the failure is caught and main
\* goes on with the remaining stations and then aggregates.
C9_FailureIsCaught ==
    ~(pc = "crashed" /\ exc \in {"HTTPError", "ValueError", "ConnectionError"})

\* C10: per call of check_waterstand the requests issued are one presence
\* check, then at most one value request, none of them twice; and a call whose
\* presence check returned normally has issued the value request, whatever the
\* presence flag said.
C10_CheckThenValue ==
    \A l \in DOMAIN Polled : \A ti \in DOMAIN ProcessTypes :
        LET t == ProcessTypes[ti]
        IN  /\ UrlsOf(l, t) \in {<<>>, <<"URL_CHECK">>, <<"URL_CHECK", "URL_OBS">>}
            /\ Completed(l, t) => UrlsOf(l, t) = <<"URL_CHECK", "URL_OBS">>
            /\ (pc = "post_obs" /\ l = loc_n /\ ti = type_n)
                  => UrlsOf(l, t) = <<"URL_CHECK">>

\* C10 witness: the presence flag was not positive, and the call went on to
\* the value request and returned its list.
C10_Witness ==
    /\ pc = "main_collect"
    /\ ~aanwezig
    /\ r.kind = "list"
    /\ UrlsOf(loc_n, type_data) = <<"URL_CHECK", "URL_OBS">>

----------------------------------------------------------------------------
(* Properties of post_json (SpecPost) *)

Is2xx(status) == status >= 200 /\ status < 300

\* what the response mapping prescribes for a response that post_json answered
\* with res, apart from the statuses for which it prescribes an error
MappedBody(resp, res) ==
    IF resp.body.kind \in {"empty", "blank"}
    THEN res = Returned(EmptyObject)
    ELSE IF resp.body.kind = "nonjson"
    THEN /\ res.raises = "ValueError"
         /\ res.carried <= BodyPrefix
         /\ res.carried = (IF resp.body.len < BodyPrefix THEN resp.body.len ELSE BodyPrefix)
    ELSE res = Returned(resp.body.json)

\* C11: post_json answers status 204 with the empty structure whatever the
\* body; raises an error for every other status outside 200..299; answers a
\* 2xx status with an empty or whitespace-only body with the empty structure;
\* raises ValueError carrying at most the first 1000 characters of the body
\* for a 2xx status with a non-JSON body; and returns the parsed body of a 2xx
\* status with a JSON body.
C11_ResponseMapping ==
    pc = "posted" =>
        IF p_resp.status = 204 THEN p_result = Returned(EmptyObject)
        ELSE IF ~Is2xx(p_resp.status) THEN p_result.raises # ""
        ELSE MappedBody(p_resp, p_result)

\* what post_json does with the statuses for which C11_ResponseMapping fails:
\* a status below 400 other than 204 is treated as a 2xx status is
PostJsonBelow400 ==
    pc = "posted" =>
        IF p_resp.status = 204 THEN p_result = Returned(EmptyObject)
        ELSE IF p_resp.status >= 400 THEN p_result = Raised("HTTPError")
        ELSE MappedBody(p_resp, p_result)

----------------------------------------------------------------------------
(* Monotonicity of the classification (SpecClassify) *)

\* C12: for every norm_level and max_level, max_level == norm_level and
\* max_level < norm_level included, and every two values h1 <= h2, the state
\* of h1 is not above the state of h2 in the order GREEN < YELLOW < ORANGE <
\* RED < BLACK. h1 is the classified value, h2 ranges over the values at or
\* above it.
C12_Monotonic ==
    pc = "classified" =>
        \A h2 \in Heights :
            c_h <= h2 => Order(c_state) <= Order(Classify(h2, c_max, c_norm))

\* max_level below norm_level: the value just under max_level is GREEN and
\* max_level itself is BLACK
C12_Witness ==
    /\ pc = "classified"
    /\ c_max < c_norm
    /\ c_h = c_max - 1
    /\ c_state = "GREEN"
    /\ Classify(c_max, c_max, c_norm) = "BLACK"

----------------------------------------------------------------------------
(* A raw response without observations in create_print_data (SpecPipe) *)

\* the sub-map of station s in table pd, empty when pd has no such key
SubMapOf(pd, s) == IF DictHas(pd, s) THEN DictGet(pd, s) ELSE <<>>

\* lines 149-154 take a raw response whose MetingenLijst is missing, null or []
TakesEmptyResponse ==
    /\ pc = "for_loc_data"
    /\ resp_i' = resp_i + 1
    /\ loc_data'.MetingenLijst # "list"

\* C13 as stated: a raw response for a station with no observations at all
\* (MetingenLijst missing, null or empty) does not fail, adds nothing to the
\* index, and the station is absent from the table's non-index keys.
C13_EmptyStationAbsent ==
    [][TakesEmptyResponse =>
        /\ pc' # "crashed"
        /\ SubMapOf(print_dict', "index") = SubMapOf(print_dict, "index")
        /\ SubMapOf(print_dict', loc_data'.Naam) = <<>>
                => ~DictHas(print_dict', loc_data'.Naam)]_vars

\* C13 amended: such a response does not fail, adds nothing to the index and
\* changes no sub-map, but its station is a key of the table afterwards: with
\* the sub-map it had, and with an empty sub-map when it was not a key before.
C13_EmptyStationEmptySubMap ==
    [][TakesEmptyResponse =>
        /\ pc' = "for_loc_data"
        /\ exc' = ""
        /\ SubMapOf(print_dict', "index") = SubMapOf(print_dict, "index")
        /\ DictHas(print_dict', loc_data'.Naam)
        /\ DictKeys(print_dict') = DictKeys(print_dict) \cup {loc_data'.Naam}
        /\ \A s \in DictKeys(print_dict') :
               SubMapOf(print_dict', s) = SubMapOf(print_dict, s)]_vars

\* the only response was one with a null MetingenLijst: its station is a key
\* of the table, with an empty sub-map, and the index is empty
C13_Witness ==
    /\ pc = "for_loc_data"
    /\ resp_i = 1
    /\ loc_data.MetingenLijst = "null"
    /\ DictHas(print_dict, loc_data.Naam)
    /\ SiteData(loc_data.Naam) = <<>>
    /\ DictKeys(print_dict) = {"index", loc_data.Naam}
    /\ IndexKeys = {}

----------------------------------------------------------------------------
(* An unknown process type in check_waterstand (SpecCall) *)

\* C14: check_waterstand called with a process type other than "meting" or
\* "verwachting" returns {} without raising and without issuing a presence
\* check or a value request, and main adds nothing to the collected responses
\* for that call.
C14_UnknownTypeEmpty ==
    [][(type_data \notin {"meting", "verwachting"}
            /\ pc \in {"check_waterstand", "main_collect"}) =>
        /\ requests' = requests
        /\ waterstanden' = waterstanden
        /\ exc' = ""
        /\ pc = "check_waterstand" => (r' = RetDict /\ pc' = "main_collect")
        /\ pc = "main_collect" => (r' = RetDict /\ pc' = "main_loop")]_vars

\* the call with "metingen" has returned {} and main went on to its loop: no
\* request was issued and the response collected before is all there is
C14_Witness ==
    /\ pc = "main_loop"
    /\ type_data = "metingen"
    /\ r = RetDict
    /\ exc = ""
    /\ requests = <<>>
    /\ waterstanden = <<[Naam |-> Polled[1].label, MetingenLijst |-> "list"]>>

----------------------------------------------------------------------------
(* Repeated passes of check_alarms (SpecPasses) *)

\* C15: a pass of check_alarms that returns leaves every station of ALARMS
\* the maximum state, in the order GREEN < YELLOW < ORANGE < RED < BLACK, over
\* the station's timestamps at or after the cutoff in the table of this pass,
\* GREEN when there are none, whatever states the pass before left; and no
\* step of a pass changes max_level, norm_level or the table.
C15_FreshMaximum ==
    [][/\ (pc = "for_site" /\ pc' = "done") =>
              \A si \in DOMAIN AlarmSites :
                  LET s == AlarmSites[si]
                  IN  ALARMS'[s].alarm =
                          MaxState({StateOf(s, n) : n \in QualifyingItems(s)})
       /\ pc \in {"check_alarms", "for_site", "for_item", "done"} =>
              /\ print_dict' = print_dict
              /\ \A s \in DOMAIN ALARMS :
                     /\ ALARMS'[s].max_level = ALARMS[s].max_level
                     /\ ALARMS'[s].norm_level = ALARMS[s].norm_level]_vars

\* a pass found Lobith YELLOW and Amerongen BLACK, left by the pass before,
\* and returned with Lobith GREEN, none of its timestamps qualifying any
\* more, and Amerongen BLACK again
C15_Witness ==
    /\ pc = "done"
    /\ left_alarm[Lobith] = "YELLOW"
    /\ left_alarm[Amerongen] = "BLACK"
    /\ SiteData(Lobith) # <<>>
    /\ QualifyingItems(Lobith) = {}
    /\ ALARMS[Lobith].alarm = "GREEN"
    /\ ALARMS[Amerongen].alarm = "BLACK"

----------------------------------------------------------------------------
(* The fallback chains of main_old.main (SpecOld) *)

\* a query without its station
Shape(q) == <<q.proces_type, q.parameter_code>>

IsPrefix(a, b) == Len(a) <= Len(b) /\ \A i \in DOMAIN a : a[i] = b[i]

\* the shapes of a chain in its order: the code of the sanity check if there
\* is one, the WATHTE quantity (for the measurements with and, if wide is set,
\* also without ProcesType), the first 50 codes of the catalog list
ChainOrder(c, wide) ==
    LET type == IF c = "meting" THEN "" ELSE "verwachting"
        many == IF Len(param_candidates) < CandidateCap
                THEN Len(param_candidates) ELSE CandidateCap
    IN  (IF last_param # 0 THEN << <<type, last_param>> >> ELSE <<>>)
        \o << <<c, 0>> >>
        \o (IF c = "meting" /\ wide THEN << <<"", 0>> >> ELSE <<>>)
        \o [i \in 1 .. many |-> <<type, param_candidates[i]>>]

\* the queries of chain c were asked in the order of the chain, all of them
\* for one station
InOrder(c) ==
    LET asked == [i \in DOMAIN queries[c] |-> Shape(queries[c][i].q)]
    IN  /\ IsPrefix(asked, ChainOrder(c, TRUE)) \/ IsPrefix(asked, ChainOrder(c, FALSE))
        /\ \A i, j \in DOMAIN queries[c] : queries[c][i].q.loc = queries[c][j].q.loc

\* no query of chain c follows one that returned an observation
StopsAtFirstSuccess(c) ==
    \A i \in DOMAIN queries[c] : queries[c][i].has => i = Len(queries[c])

\* lines 390-391 have run for the station
SplitDone == pc \in {"old_loop", "old_done"} /\ proces = "verwachting"

\* the response with an observation is the one split_by_day received
PassedOn(c) ==
    SplitDone =>
        \A i \in DOMAIN queries[c] :
            queries[c][i].has => split_in[c] = Observations(queries[c][i].q)

\* no two queries of chain c have the same station, ProcesType and
\* Parameter.Code or Grootheid.Code
NoRepeat(c) ==
    \A i, j \in DOMAIN queries[c] : i < j => queries[c][i].q # queries[c][j].q

\* C16: for each station and each process type, the chain is tried in a fixed
\* order (the parameter code of the sanity check, then the WATHTE quantity
\* query, then at most 50 parameter codes of the catalog) and stops at the
\* first success: after a fetch returned a response with an observation no
\* further query is issued for that station and process type, that response
\* is the one passed to split_by_day, and no identical query is issued twice.
C16_FallbackChain ==
    \A c \in Chains :
        /\ InOrder(c)
        /\ StopsAtFirstSuccess(c)
        /\ PassedOn(c)
        /\ NoRepeat(c)

\* what holds of the chains: order, stop at the first success and the
\* response passed on; and a query is repeated only when the code of the
\* sanity check is asked again as a code of the catalog list
ChainsApartFromRepeats ==
    \A c \in Chains :
        /\ InOrder(c)
        /\ StopsAtFirstSuccess(c)
        /\ PassedOn(c)
        /\ \A i, j \in DOMAIN queries[c] :
               (i < j /\ queries[c][i].q = queries[c][j].q) =>
                   /\ i = 1
                   /\ last_param # 0
                   /\ queries[c][j].q.parameter_code = last_param
                   /\ \E n \in DOMAIN param_candidates : param_candidates[n] = last_param

\* a chain found its observation with a code of the catalog list, after the
\* code of the sanity check and the quantity queries brought none
ChainSucceedsLate ==
    /\ SplitDone
    /\ last_param = 999
    /\ Len(queries["meting"]) = 5
    /\ queries["meting"][5].has
    /\ split_in["meting"] = Observations(queries["meting"][5].q)

====
